---- MODULE Spec2Model ----
(***************************************************************************)
(* A model of bioconda_utils: the build scheduler build_recipes (build.py) *)
(* and the pinning check (update_pinnings.py).                             *)
(*                                                                         *)
(* Package names are the integers 1..MaxNames (Python compares the names   *)
(* as strings; only their order matters).  A recipe is <<name, k>>, the    *)
(* k-th recipe of name2recipes[name]; a Target is <<recipe, j>>, the j-th  *)
(* entry of recipe_targets[recipe].                                        *)
(***************************************************************************)
EXTENDS Integers, Sequences, FiniteSets, TLC

\* ------------------------------------------------------------- bounds
MaxNames == 3
MaxShards == 3
MaxRecipes == 2
MaxTargets == 2
MaxTotalTargets == 3
MaxShardNames == 4
MaxShardEdges == 3
MaxIndex == 2
MaxVariants == 2
MaxRun == 2

VARIABLES
    \* inputs of build_recipes
    globbed, dag, name2recipes, recipe_targets,
    testonly, mulled_test, anaconda_upload, mulled_upload_target,
    subdags_n, subdag_i,
    \* locals of build_recipes
    pc, result, chunks, subdag, recipes, idx, tgt,
    failed, built_recipes, skipped_recipes, all_success, recipe_success,
    failed_uploads, skip_dependent,
    \* calls made to the collaborators, in order
    build_log, upload_log, purge_log,
    \* update_pinnings.check: the package index, its arguments, its locals, the
    \* flag of each variant in order, conda_release called, the state returned
    repodata, crecipe, skip_variant_keys, keep_metas,
    cpc, metas, mi, flags, contrib, released, cresult

bvars == <<globbed, dag, name2recipes, recipe_targets,
           testonly, mulled_test, anaconda_upload, mulled_upload_target,
           subdags_n, subdag_i,
           pc, result, chunks, subdag, recipes, idx, tgt,
           failed, built_recipes, skipped_recipes, all_success, recipe_success,
           failed_uploads, skip_dependent,
           build_log, upload_log, purge_log>>

cvars == <<repodata, crecipe, skip_variant_keys, keep_metas,
           cpc, metas, mi, flags, contrib, released, cresult>>

vars == <<bvars, cvars>>

inputs == <<globbed, dag, name2recipes, recipe_targets,
            testonly, mulled_test, anaconda_upload, mulled_upload_target,
            subdags_n, subdag_i>>

\* ------------------------------------------------------------- helpers
Names == 1..MaxNames

Range(s) == {s[i] : i \in DOMAIN s}

RECURSIVE Flatten(_)
Flatten(ss) == IF ss = <<>> THEN <<>> ELSE Head(ss) \o Flatten(Tail(ss))

Count(s, x) == Cardinality({i \in DOMAIN s : s[i] = x})

\* Python's list comparison: lexicographic, a proper prefix is smaller.
RECURSIVE list_lt(_, _)
list_lt(a, b) ==
    IF b = <<>> THEN FALSE
    ELSE IF a = <<>> THEN TRUE
    ELSE IF Head(a) # Head(b) THEN Head(a) < Head(b)
    ELSE list_lt(Tail(a), Tail(b))

\* sorted() of a set of names
RECURSIVE sorted(_)
sorted(S) ==
    IF S = {} THEN <<>>
    ELSE LET m == CHOOSE x \in S : \A y \in S : x <= y
         IN <<m>> \o sorted(S \ {m})

\* sorted(..., reverse=True)
RECURSIVE sorted_lists_reversed(_)
sorted_lists_reversed(S) ==
    IF S = {} THEN <<>>
    ELSE LET m == CHOOSE x \in S : \A y \in S : x = y \/ list_lt(y, x)
         IN <<m>> \o sorted_lists_reversed(S \ {m})

\* sorted() of a set of lists
RECURSIVE sorted_lists(_)
sorted_lists(S) ==
    IF S = {} THEN <<>>
    ELSE LET m == CHOOSE x \in S : \A y \in S : x = y \/ list_lt(x, y)
         IN <<m>> \o sorted_lists(S \ {m})

\* ------------------------------------------------------------- networkx
\* a graph is [nodes |-> set of names, edges |-> set of <<a, b>>], b depends on a
RECURSIVE reach(_, _)
reach(S, E) ==
    LET T == S \cup {e[2] : e \in {d \in E : d[1] \in S}}
    IN IF T = S THEN S ELSE reach(T, E)

\* the edges kept in their direction
to_undirected_directed(g) == g

\* dag.to_undirected() (build.py 314): every edge in both directions
to_undirected(g) ==
    [nodes |-> g.nodes, edges |-> g.edges \cup {<<e[2], e[1]>> : e \in g.edges}]

connected_components(g) == {reach({n}, g.edges) : n \in g.nodes}

descendants(g, n) == reach({n}, g.edges) \ {n}

subgraph(g, S) ==
    [nodes |-> g.nodes \cap S,
     edges |-> {e \in g.edges : e[1] \in S /\ e[2] \in S}]

\* a list of the nodes in any order: the sort left out
topological_sort_any(g) ==
    LET k == Cardinality(g.nodes)
    IN {p \in [1..k -> g.nodes] : \A i, j \in 1..k : i # j => p[i] # p[j]}

\* every order topological_sort may yield; empty when the graph has a cycle
topological_sort(g) ==
    LET k == Cardinality(g.nodes)
    IN {p \in [1..k -> g.nodes] :
            /\ \A i, j \in 1..k : i # j => p[i] # p[j]
            /\ \A e \in g.edges :
                   \E i, j \in 1..k : i < j /\ p[i] = e[1] /\ p[j] = e[2]}

\* ------------------------------------------------------------- sharding
\* build.py 309-315
get_subdags(g, t) ==
    IF t THEN sorted_lists({<<n>> : n \in g.nodes})
    ELSE sorted_lists({sorted(c) : c \in connected_components(to_undirected(g))})

\* subdags[i:]: the step of the slice left out
RECURSIVE slice_step_contiguous(_, _, _)
slice_step_contiguous(s, i, n) ==
    IF i >= Len(s) THEN <<>> ELSE <<s[i + 1]>> \o slice_step_contiguous(s, i + 1, n)

\* subdags[i::n], 0-based i
RECURSIVE slice_step(_, _, _)
slice_step(s, i, n) ==
    IF i >= Len(s) THEN <<>> ELSE <<s[i + 1]>> \o slice_step(s, i + n, n)

\* build.py 317-321
get_chunks(subdags, n) ==
    IF n < Len(subdags)
    THEN [i \in 1..n |-> Flatten(slice_step(subdags, i - 1, n))]
    ELSE subdags

\* ------------------------------------------------------------- build()
None == "None"

\* the None that build() returns for mulled_image
NoImage == <<>>

\* build.py 22-161: conda_ok is the outcome of conda build (92-136), test_ok that
\* of pkg_test.test_package (147-150), which runs only when mulled_test is set
build(target, conda_ok, test_ok) ==
    IF ~conda_ok THEN [success |-> FALSE, mulled_image |-> NoImage]
    ELSE IF ~mulled_test THEN [success |-> TRUE, mulled_image |-> NoImage]
    ELSE IF test_ok THEN [success |-> TRUE, mulled_image |-> <<"image", target>>]
    ELSE [success |-> FALSE, mulled_image |-> NoImage]

\* what a collaborator call may do: return truthy, return falsy, raise
Outcomes == {"ok", "fail", "raise"}

\* ------------------------------------------------------------- inputs
\* the target counts of the recipes of one name
Shapes == UNION {[1..k -> 1..MaxTargets] : k \in 1..MaxRecipes}

RECURSIVE Sum(_)
Sum(s) == IF s = <<>> THEN 0 ELSE Head(s) + Sum(Tail(s))

Digraphs(V) == SUBSET {e \in V \X V : e[1] # e[2]}

\* a recipe that filter_recipes drops (build.py 281-285)
FilteredOut == <<0, 1>>

\* check() is not running
CheckIdle ==
    /\ repodata = {}
    /\ crecipe = [render |-> "None", metas |-> <<>>]
    /\ skip_variant_keys = {}
    /\ keep_metas = FALSE
    /\ cpc = "idle"
    /\ metas = <<>>
    /\ mi = 1
    /\ flags = {}
    /\ contrib = <<>>
    /\ released = FALSE
    /\ cresult = {}

\* the locals of build_recipes before its first statement
InitLocals ==
    /\ CheckIdle
    /\ pc = "start"
    /\ result = None
    /\ chunks = <<>>
    /\ subdag = [nodes |-> {}, edges |-> {}]
    /\ recipes = <<>>
    /\ idx = 1
    /\ tgt = 1
    /\ failed = <<>>
    /\ built_recipes = <<>>
    /\ skipped_recipes = <<>>
    /\ all_success = TRUE
    /\ recipe_success = TRUE
    /\ failed_uploads = <<>>
    /\ skip_dependent = <<>>
    /\ build_log = <<>>
    /\ upload_log = <<>>
    /\ purge_log = <<>>

\* utils.get_dag (build.py 287-291) and utils.filter_recipes (281-285): the
\* graph over the names 1..k with the edges E, the recipes of each name and
\* the Targets of each recipe
Catalog(k, E, shape, filtered_out) ==
    /\ dag = [nodes |-> 1..k, edges |-> E]
    /\ name2recipes = [n \in 1..k |-> [i \in 1..Len(shape[n]) |-> <<n, i>>]]
    /\ recipe_targets =
           [r \in UNION {{<<n, i>> : i \in 1..Len(shape[n])} : n \in 1..k}
            |-> [j \in 1..shape[r[1]][r[2]] |-> <<r, j>>]]
    /\ globbed = UNION {{<<n, i>> : i \in 1..Len(shape[n])} : n \in 1..k}
                 \cup (IF filtered_out THEN {FilteredOut} ELSE {})

\* up to MaxNames names with any edges among them (cycles too), up to
\* MaxTotalTargets Targets in all, every setting of the flags
InitBuild ==
    /\ \E k \in 0..MaxNames, filtered_out \in BOOLEAN :
       \E E \in Digraphs(1..k), shape \in [1..k -> Shapes] :
          /\ Sum([n \in 1..k |-> Sum(shape[n])]) <= MaxTotalTargets
          /\ k > 0 => ~filtered_out
          /\ Catalog(k, E, shape, filtered_out)
    /\ testonly \in BOOLEAN
    /\ mulled_test \in BOOLEAN
    /\ anaconda_upload \in BOOLEAN
    /\ mulled_upload_target \in BOOLEAN
    /\ subdags_n \in 1..MaxShards
    /\ subdag_i \in 0..subdags_n
    /\ InitLocals

\* larger graphs for the sharding: up to MaxShardNames names and MaxShardEdges
\* edges, one recipe with one Target per name, no uploads
InitShard ==
    /\ \E k \in 0..MaxShardNames, filtered_out \in BOOLEAN :
       \E E \in Digraphs(1..k) :
          /\ Cardinality(E) <= MaxShardEdges
          /\ k > 0 => ~filtered_out
          /\ Catalog(k, E, [n \in 1..k |-> <<1>>], filtered_out)
    /\ testonly \in BOOLEAN
    /\ mulled_test = TRUE
    /\ anaconda_upload = FALSE
    /\ mulled_upload_target = FALSE
    /\ subdags_n \in 1..MaxShards
    /\ subdag_i \in 0..subdags_n
    /\ InitLocals

\* ------------------------------------------------------------- build_recipes
recipe2name(r) == r[1]

Return(v) ==
    /\ pc' = "done"
    /\ result' = v

Raise(kind) ==
    /\ pc' = kind
    /\ UNCHANGED result

\* subdag_i > subdags_n
bad_index_strict(i, n) == i > n

\* build.py 303: the shard index is refused
bad_index(i, n) == i >= n

\* flag = res.success: the last Target decides
and_success_last(flag, res) == res.success

\* build.py 371-372: all_success &= res.success, recipe_success &= res.success
and_success(flag, res) == flag /\ res.success

\* the direct dependents only
blocked_by_children(g, name) == {e[2] : e \in {d \in g.edges : d[1] = name}}

\* the failing name is blocked with its descendants
blocked_by_self_too(g, name) == descendants(g, name) \cup {name}

\* build.py 376: the names a failure of `name` blocks
blocked_by(g, name) == descendants(g, name)

\* an upload that reported failure counted as a failed build
attempt_failed_or_upload(res, up) == ~res.success \/ up = "fail"

\* build.py 374: the test that guards the record of the failure and the skip
\* ledger; up, the outcome of the artifact upload, plays no part in it
attempt_failed(res, up) == ~res.success

\* purge() inside the branch of the successful build
purge_reached_on_success(res, raised) == res.success /\ ~raised

\* build.py 358-387: purge() ends the body of the loop over the Targets; it is
\* reached on every path through the body that no exception leaves
purge_reached(res, raised) == ~raised

\* the failed uploads left out of the returned value
return_value_builds_only(f, fu, success) ==
    IF f # <<>> THEN "False"
    ELSE IF success THEN "True" ELSE "False"

\* build.py 392-427
return_value(f, fu, success) ==
    IF f # <<>> \/ fu # <<>> THEN "False"
    ELSE IF success THEN "True" ELSE "False"

\* build.py 234-343: everything up to the loop over the recipes
Start ==
    /\ pc = "start"
    /\ UNCHANGED <<inputs, idx, tgt, failed, built_recipes, skipped_recipes,
                   all_success, recipe_success, failed_uploads, skip_dependent,
                   build_log, upload_log, purge_log, cvars>>
    /\ IF globbed = {} \/ dag.nodes = {}
       THEN \* 257-259, 293-295
            Return("True") /\ UNCHANGED <<chunks, subdag, recipes>>
       ELSE IF bad_index(subdag_i, subdags_n)
       THEN \* 303-306
            Raise("ValueError") /\ UNCHANGED <<chunks, subdag, recipes>>
       ELSE LET c == get_chunks(get_subdags(dag, testonly), subdags_n)
            IN /\ chunks' = c
               /\ IF subdag_i >= Len(c)
                  THEN \* 322-324
                       Return("True") /\ UNCHANGED <<subdag, recipes>>
                  ELSE LET g == subgraph(dag, Range(c[subdag_i + 1]))
                       IN /\ subdag' = g
                          /\ IF topological_sort(g) = {}
                             THEN \* 330: topological_sort raises on a cycle
                                  Raise("NetworkXUnfeasible") /\ UNCHANGED recipes
                             ELSE /\ \E order \in topological_sort(g) :
                                     recipes' = Flatten([i \in DOMAIN order |->
                                                          name2recipes[order[i]]])
                                  /\ pc' = "loop"
                                  /\ UNCHANGED result

this_recipe == recipes[idx]

\* skip_dependent[n] = [recipe] for every n of S
append_all_overwrite(sd, S, recipe) ==
    [n \in DOMAIN sd \cup S |-> IF n \in S THEN <<recipe>> ELSE sd[n]]

\* skip_dependent[n].append(recipe) for every n of S (a defaultdict(list))
append_all(sd, S, recipe) ==
    [n \in DOMAIN sd \cup S |->
        IF n \in S
        THEN Append(IF n \in DOMAIN sd THEN sd[n] ELSE <<>>, recipe)
        ELSE sd[n]]

\* build.py 345-356: a recipe whose name is in skip_dependent is skipped
SkipRecipe ==
    /\ pc = "loop"
    /\ idx <= Len(recipes)
    /\ tgt = 1
    /\ recipe2name(this_recipe) \in DOMAIN skip_dependent
    /\ skipped_recipes' = Append(skipped_recipes, this_recipe)
    /\ idx' = idx + 1
    /\ recipe_success' = TRUE
    /\ UNCHANGED <<inputs, pc, result, chunks, subdag, recipes, tgt, failed,
                   built_recipes, all_success, failed_uploads, skip_dependent,
                   build_log, upload_log, purge_log, cvars>>

\* build.py 358-390: one Target of the current recipe: build, record, upload,
\* purge; after the recipe's last Target, 389-390.  The outcomes of conda build,
\* of the package test and of the two uploads are the environment's choice
BuildTarget ==
    /\ pc = "loop"
    /\ idx <= Len(recipes)
    /\ tgt = 1 => recipe2name(this_recipe) \notin DOMAIN skip_dependent
    /\ \E conda_ok \in BOOLEAN :
       \E test_ok \in IF conda_ok /\ mulled_test THEN BOOLEAN ELSE {TRUE} :
          LET recipe == this_recipe
              name == recipe2name(recipe)
              target == recipe_targets[recipe][tgt]
              res == build(target, conda_ok, test_ok)
              ok == and_success(IF tgt = 1 THEN TRUE ELSE recipe_success, res)
              call_up == res.success /\ ~testonly /\ anaconda_upload
              last == tgt = Len(recipe_targets[recipe])
          IN
          \E up \in IF call_up THEN Outcomes ELSE {"ok"} :
          LET up_raised == call_up /\ up = "raise"
              call_mup == res.success /\ ~testonly /\ mulled_upload_target
                          /\ ~up_raised
          IN
          \E mup \in IF call_mup THEN Outcomes ELSE {"ok"} :
          LET raised == up_raised \/ (call_mup /\ mup = "raise")
          IN /\ build_log' = Append(build_log,
                                    [target |-> target, success |-> res.success])
             /\ all_success' = and_success(all_success, res)
             /\ recipe_success' = ok
             /\ failed' = IF ~attempt_failed(res, up) THEN failed
                          ELSE Append(failed, <<recipe, target>>)
             /\ skip_dependent' =
                    IF ~attempt_failed(res, up) THEN skip_dependent
                    ELSE append_all(skip_dependent, blocked_by(subdag, name), recipe)
             /\ upload_log' =
                    upload_log
                    \o (IF call_up
                        THEN <<[fn |-> "anaconda_upload", target |-> target,
                                image |-> NoImage, outcome |-> up]>>
                        ELSE <<>>)
                    \o (IF call_mup
                        THEN <<[fn |-> "mulled_upload", target |-> target,
                                image |-> res.mulled_image, outcome |-> mup]>>
                        ELSE <<>>)
             /\ failed_uploads' = IF call_up /\ up = "fail"
                                  THEN Append(failed_uploads, target)
                                  ELSE failed_uploads
             /\ purge_log' = IF purge_reached(res, raised)
                             THEN Append(purge_log, target)
                             ELSE purge_log
             /\ IF raised
                THEN \* the exception leaves build_recipes
                     /\ Raise("CollaboratorError")
                     /\ UNCHANGED <<idx, tgt, built_recipes>>
                ELSE /\ UNCHANGED <<pc, result>>
                     /\ IF last
                        THEN /\ built_recipes' = IF ok THEN Append(built_recipes, recipe)
                                                 ELSE built_recipes
                             /\ idx' = idx + 1
                             /\ tgt' = 1
                        ELSE /\ tgt' = tgt + 1
                             /\ UNCHANGED <<built_recipes, idx>>
    /\ UNCHANGED <<inputs, chunks, subdag, recipes, skipped_recipes, cvars>>

\* build.py 392-427: the summary and the returned value
Finish ==
    /\ pc = "loop"
    /\ idx > Len(recipes)
    /\ Return(return_value(failed, failed_uploads, all_success))
    /\ UNCHANGED <<inputs, chunks, subdag, recipes, idx, tgt, failed, built_recipes,
                   skipped_recipes, all_success, recipe_success, failed_uploads,
                   skip_dependent, build_log, upload_log, purge_log, cvars>>

Next == Start \/ SkipRecipe \/ BuildTarget \/ Finish

Spec == InitBuild /\ [][Next]_vars

SpecShard == InitShard /\ [][Next]_vars

\* ------------------------------------------------------------- str
\* A Python str is the sequence of its characters.
Digits == {"0", "1", "2", "3", "4", "5", "6", "7", "8", "9"}

Whitespace == {" "}

\* s.startswith(p)
startswith(s, p) == Len(s) >= Len(p) /\ SubSeq(s, 1, Len(p)) = p

\* s[n:]
drop(s, n) == SubSeq(s, n + 1, Len(s))

\* s.replace(old, new) for a non-empty old: every occurrence, left to right
RECURSIVE replace(_, _, _)
replace(s, old, new) ==
    IF s = <<>> THEN <<>>
    ELSE IF startswith(s, old) THEN new \o replace(drop(s, Len(old)), old, new)
    ELSE <<Head(s)>> \o replace(Tail(s), old, new)

RECURSIVE lstrip(_)
lstrip(s) ==
    IF s # <<>> /\ Head(s) \in Whitespace THEN lstrip(Tail(s)) ELSE s

RECURSIVE first_word(_)
first_word(s) ==
    IF s = <<>> \/ Head(s) \in Whitespace THEN <<>>
    ELSE <<Head(s)>> \o first_word(Tail(s))

\* dep.split()[0] of a dep that has a word
split_0(dep) == first_word(lstrip(dep))

\* ------------------------------------------------------------- re
\* update_pinnings.py 73-86: the alternatives of the group that is repeated,
\* in the order the pattern lists them
legacy_build_string_prefixes == <<
    [group |-> <<"n", "u", "m", "p", "y">>,    tag |-> <<"n", "p">>,  min |-> 2, max |-> 9],
    [group |-> <<"p", "y", "t", "h", "o", "n">>,   tag |-> <<"p", "y">>,  min |-> 2, max |-> 9],
    [group |-> <<"p", "e", "r", "l">>,     tag |-> <<"p", "l">>,  min |-> 2, max |-> 9],
    [group |-> <<"l", "u", "a">>,      tag |-> <<"l", "u", "a">>, min |-> 2, max |-> 9],
    [group |-> <<"r", "_", "b", "a", "s", "e">>,   tag |-> <<"r">>,   min |-> 2, max |-> 9],
    [group |-> <<"m", "r", "o", "_", "b", "a", "s", "e">>, tag |-> <<"m", "r", "o">>, min |-> 3, max |-> 9] >>

\* [0-9]{,max} is greedy: the digits s starts with, at most max of them
RECURSIVE leading_digits(_, _)
leading_digits(s, max) ==
    IF max = 0 \/ s = <<>> \/ Head(s) \notin Digits THEN 0
    ELSE 1 + leading_digits(Tail(s), max - 1)

\* the characters alternative a takes at the start of s, 0 when it fails
alternative_len(a, s) ==
    IF ~startswith(s, a.tag) THEN 0
    ELSE LET d == leading_digits(drop(s, Len(a.tag)), a.max)
         IN IF d >= a.min THEN Len(a.tag) + d ELSE 0

\* the first alternative that matches at the start of s, 0 when none does
alternative(s) ==
    LET P == legacy_build_string_prefixes
        ok == {i \in DOMAIN P : alternative_len(P[i], s) > 0}
    IN IF ok = {} THEN 0 ELSE CHOOSE i \in ok : \A j \in ok : i <= j

\* ( ... )* : a group keeps what its last repetition captured; <<>> is None
RECURSIVE match_star(_, _)
match_star(s, g) ==
    LET i == alternative(s)
    IN IF i = 0 THEN g
       ELSE LET n == alternative_len(legacy_build_string_prefixes[i], s)
            IN match_star(drop(s, n), [g EXCEPT ![i] = SubSeq(s, 1, n)])

\* _legacy_build_string_prefixes.match(build_id).groupdict(), in group order
groupdict(build_id) ==
    match_star(build_id, [i \in DOMAIN legacy_build_string_prefixes |-> <<>>])

\* ------------------------------------------------------------- RepoData
\* the platforms of the package index
Platforms == {"linux", "noarch", "osx"}

\* RepoData().get_package_data(**filters): the entries of the index that agree
\* with every filter given; platform is a list of accepted platforms
get_package_data(filters) ==
    {rec \in repodata :
        \A f \in DOMAIN filters :
           IF f = "platform" THEN rec.platform \in filters.platform
           ELSE rec[f] = filters[f]}

\* ------------------------------------------------------------- update_pinnings
\* update_pinnings.py 25-31: the used variables that are left after
\* trim_build_only_deps
get_build_variants(meta) == meta.used_vars

\* update_pinnings.py 34-45
skip_for_variants(meta, variant_keys) ==
    get_build_variants(meta) \cap variant_keys # {}

\* update_pinnings.py 48-70
will_build_variant(meta) ==
    LET build_numbers ==
            {rec.build_number :
                rec \in get_package_data([name |-> meta.name, version |-> meta.version,
                                          platform |-> {"linux", "noarch"}])}
    IN \A num \in build_numbers : num < meta.build_number

\* update_pinnings.py 112-119
build_deps(meta) ==
    LET deps == meta.requirements_build \o meta.requirements_host
    IN [i \in DOMAIN deps |-> replace(split_0(deps[i]), <<"-">>, <<"_">>)]

\* update_pinnings.py 129-131: the groups from the i-th on
RECURSIVE trim_groups(_, _, _, _)
trim_groups(trimmed_build_id, g, deps, i) ==
    IF i > Len(g) THEN trimmed_build_id
    ELSE LET matched_str == g[i]
             group == legacy_build_string_prefixes[i].group
         IN trim_groups(IF matched_str # <<>> /\ group \notin Range(deps)
                        THEN replace(trimmed_build_id, matched_str, <<>>)
                        ELSE trimmed_build_id,
                        g, deps, i + 1)

\* update_pinnings.py 127-134
trim(build_id, deps) ==
    LET trimmed_build_id == trim_groups(build_id, groupdict(build_id), deps, 1)
    IN IF startswith(trimmed_build_id, <<"_">>) THEN Tail(trimmed_build_id)
       ELSE trimmed_build_id

\* update_pinnings.py 112-139: the fallback on the legacy build strings
have_legacy_variant(meta) ==
    LET res == {rec.build :
                   rec \in get_package_data([name |-> meta.name,
                                             version |-> meta.version,
                                             build_number |-> meta.build_number,
                                             platform |-> {"linux", "noarch"}])}
    IN \E build_id \in res : trim(build_id, build_deps(meta)) = meta.build_id

\* update_pinnings.py 98-105: the exact query
have_exact_variant(meta) ==
    get_package_data([name |-> meta.name, version |-> meta.version,
                      build |-> meta.build_id,
                      platform |-> {"linux", "noarch"}]) # {}

\* the exact query left out
have_variant_legacy_only(meta) == have_legacy_variant(meta)

\* update_pinnings.py 89-139
have_variant(meta) == have_exact_variant(meta) \/ have_legacy_variant(meta)

\* update_pinnings.py 142-161
have_noarch_python_build_number(meta) ==
    /\ meta.noarch = "python"
    /\ get_package_data([name |-> meta.name, version |-> meta.version,
                         build_number |-> meta.build_number,
                         platform |-> {"noarch"}]) # {}

\* update_pinnings.py 165-178
State == {"FAIL", "SKIP", "HAVE", "BUMPED", "BUMP", "HAVE_NOARCH_PYTHON"}

\* update_pinnings.py 180-183
needs_bump(state) == "BUMP" \in state

\* update_pinnings.py 186-188
state_failed(state) == "FAIL" \in state

\* update_pinnings.py 191-193
allowed_build_string_characters ==
    Digits
    \cup {"A", "B", "C", "D", "E", "F", "G", "H", "I", "J", "K", "L", "M", "N", "O", "P", "Q", "R", "S", "T", "U", "V", "W", "X", "Y", "Z"}
    \cup {"a", "b", "c", "d", "e", "f", "g", "h", "i", "j", "k", "l", "m", "n", "o", "p", "q", "r", "s", "t", "u", "v", "w", "x", "y", "z"}
    \cup {"_", "."}

\* only the empty build string is refused
has_invalid_build_string_empty(meta) == meta.build_id = <<>>

\* update_pinnings.py 196-198
has_invalid_build_string(meta) ==
    LET build_string == meta.build_id
    IN ~(build_string # <<>>
         /\ Range(build_string) \subseteq allowed_build_string_characters)

\* have_variant asked before have_noarch_python_build_number
variant_flag_have_first(meta) ==
    IF meta.skip \/ skip_for_variants(meta, skip_variant_keys) THEN "SKIP"
    ELSE IF have_variant(meta) THEN "HAVE"
    ELSE IF have_noarch_python_build_number(meta) THEN "HAVE_NOARCH_PYTHON"
    ELSE IF will_build_variant(meta) THEN "BUMPED"
    ELSE "BUMP"

\* update_pinnings.py 244-255: the flag of one variant
variant_flag(meta) ==
    IF meta.skip \/ skip_for_variants(meta, skip_variant_keys) THEN "SKIP"
    ELSE IF have_noarch_python_build_number(meta) THEN "HAVE_NOARCH_PYTHON"
    ELSE IF have_variant(meta) THEN "HAVE"
    ELSE IF will_build_variant(meta) THEN "BUMPED"
    ELSE "BUMP"

\* update_pinnings.py 219-240: render, and the three ways to fail
Render ==
    /\ cpc = "render"
    /\ IF crecipe.render # "metas"
       THEN /\ cpc' = "done"
            /\ cresult' = {"FAIL"}
            /\ UNCHANGED metas
       ELSE /\ metas' = crecipe.metas
            /\ IF \E i \in DOMAIN crecipe.metas :
                     has_invalid_build_string(crecipe.metas[i])
               THEN /\ cpc' = "done"
                    /\ cresult' = {"FAIL"}
               ELSE /\ cpc' = "loop"
                    /\ UNCHANGED cresult
    /\ UNCHANGED <<repodata, crecipe, skip_variant_keys, keep_metas, mi, flags,
                   contrib, released>>
    /\ UNCHANGED bvars

\* update_pinnings.py 243-255: one pass of the loop over the variants
Classify ==
    /\ cpc = "loop"
    /\ mi <= Len(metas)
    /\ LET flag == variant_flag(metas[mi])
       IN /\ flags' = flags \cup {flag}
          /\ contrib' = Append(contrib, flag)
    /\ mi' = mi + 1
    /\ UNCHANGED <<repodata, crecipe, skip_variant_keys, keep_metas, cpc, metas,
                   released, cresult>>
    /\ UNCHANGED bvars

\* update_pinnings.py 256-258
ReturnCheck ==
    /\ cpc = "loop"
    /\ mi > Len(metas)
    /\ released' = ~keep_metas
    /\ cresult' = flags
    /\ cpc' = "done"
    /\ UNCHANGED <<repodata, crecipe, skip_variant_keys, keep_metas, metas, mi,
                   flags, contrib>>
    /\ UNCHANGED bvars

NextCheck == Render \/ Classify \/ ReturnCheck

\* ------------------------------------------------------------- check() inputs
\* build_recipes is not running
BuildIdle ==
    /\ globbed = {}
    /\ dag = [nodes |-> {}, edges |-> {}]
    /\ name2recipes = <<>>
    /\ recipe_targets = <<>>
    /\ testonly = FALSE
    /\ mulled_test = FALSE
    /\ anaconda_upload = FALSE
    /\ mulled_upload_target = FALSE
    /\ subdags_n = 1
    /\ subdag_i = 0
    /\ pc = "idle"
    /\ result = None
    /\ chunks = <<>>
    /\ subdag = [nodes |-> {}, edges |-> {}]
    /\ recipes = <<>>
    /\ idx = 1
    /\ tgt = 1
    /\ failed = <<>>
    /\ built_recipes = <<>>
    /\ skipped_recipes = <<>>
    /\ all_success = TRUE
    /\ recipe_success = TRUE
    /\ failed_uploads = <<>>
    /\ skip_dependent = <<>>
    /\ build_log = <<>>
    /\ upload_log = <<>>
    /\ purge_log = <<>>

\* the locals of check before its first statement
CheckLocals ==
    /\ cpc = "render"
    /\ metas = <<>>
    /\ mi = 1
    /\ flags = {}
    /\ contrib = <<>>
    /\ released = FALSE
    /\ cresult = {}

abc123 == <<"a", "b", "c", "1", "2", "3">>

py38_abc123 == <<"p", "y", "3", "8", "_", "a", "b", "c", "1", "2", "3">>

\* a MetaData of package pkg 1.0 as conda_render returns it
Variant(build_id, build_number, noarch, skip, used_vars, req_build, req_host) ==
    [name |-> "pkg", version |-> "1.0", build_id |-> build_id,
     build_number |-> build_number, noarch |-> noarch, skip |-> skip,
     used_vars |-> used_vars,
     requirements_build |-> req_build, requirements_host |-> req_host]

\* an entry of the package index
Entry(name, version, build_id, build_number, platform) ==
    [name |-> name, version |-> version, build |-> build_id,
     build_number |-> build_number, platform |-> platform]

\* builds of pkg 1.0 with the build string of the variants or a legacy one, on
\* every platform, and builds of another package and of another version
CheckEntries ==
    {Entry("pkg", "1.0", b, n, p) :
        b \in {abc123, py38_abc123}, n \in 0..1, p \in Platforms}
    \cup {Entry("lib", "1.0", abc123, 0, "linux"),
          Entry("pkg", "1.1", abc123, 1, "linux"),
          Entry("pkg", "1.1", abc123, 0, "noarch")}

ValidVariants ==
    {Variant(abc123, n, na, sk, uv, <<>>, rh) :
        n \in 0..1, na \in {"python", "generic", None}, sk \in BOOLEAN,
        uv \in {{}, {"python"}}, rh \in {<<>>, <<<<"p", "y", "t", "h", "o", "n">>>>}}

\* an empty build string, and one with a character that is not allowed
InvalidVariants ==
    {Variant(b, 0, None, FALSE, {}, <<>>, <<>>) : b \in {<<>>, <<"a", "-", "b">>}}

PlainVariants ==
    {v \in ValidVariants :
        ~v.skip /\ v.noarch = None /\ v.used_vars = {} /\ v.requirements_host = <<>>}
    \cup InvalidVariants

\* what conda_render does with the recipe: raise, return None, or return up to
\* MaxVariants variants (any variant first, plain ones after it)
CheckRecipes ==
    {[render |-> r, metas |-> <<>>] : r \in {"RecipeError", "Exception", "None"}}
    \cup {[render |-> "metas", metas |-> ms] :
             ms \in {m \in UNION {[1..k -> ValidVariants \cup InvalidVariants] :
                                     k \in 0..MaxVariants} :
                        \A i \in DOMAIN m : i > 1 => m[i] \in PlainVariants}}

InitCheck ==
    /\ BuildIdle
    /\ repodata \in {ix \in SUBSET CheckEntries : Cardinality(ix) <= MaxIndex}
    /\ crecipe \in CheckRecipes
    /\ skip_variant_keys \in {{}, {"python"}}
    /\ keep_metas \in BOOLEAN
    /\ CheckLocals

SpecCheck == InitCheck /\ [][NextCheck]_vars

\* ------------------------------------------------------------- legacy inputs
LegacyTags == {<<"p", "y", "3", "8">>, <<"p", "y", "2", "7">>, <<"n", "p", "1", "1", "6">>, <<"p", "l", "5", "2", "6">>, <<"l", "u", "a", "5", "3">>, <<"r", "3", "6">>, <<"m", "r", "o", "3", "5", "1">>}

\* up to MaxRun tags in a row
Runs == {Flatten(t) : t \in UNION {[1..k -> LegacyTags] : k \in 0..MaxRun}}

Bodies == {abc123, <<"x", "p", "y", "3", "8">>, <<"r", "3", "6">>, <<"0">>}

\* a tag with ten digits, and tags with too few
OddCandidates == {<<"p", "y", "1", "2", "3", "4", "5", "6", "7", "8", "9", "0", "_", "a", "b", "c", "1", "2", "3">>, <<"r", "3", "_", "a", "b", "c", "1", "2", "3">>, <<"m", "r", "o", "3", "5", "_", "a", "b", "c", "1", "2", "3">>}

Candidates ==
    {run \o sep \o body : run \in Runs, sep \in {<<>>, <<"_">>}, body \in Bodies}
    \cup OddCandidates

NormVariants ==
    {Variant(b, 0, None, FALSE, {}, rb, rh) :
        b \in Bodies \cup {py38_abc123},
        rb \in {<<>>, <<<<"p", "y", "t", "h", "o", "n", " ", ">", "=", "3">>>>},
        rh \in {<<>>, <<<<"r", "-", "b", "a", "s", "e">>>>, <<<<"p", "e", "r", "l">>, <<"l", "u", "a">>>>, <<<<" ", "n", "u", "m", "p", "y">>, <<"m", "r", "o", "-", "b", "a", "s", "e">>>>}}

\* one build of pkg 1.0 with the variant's build number in the index
InitNorm ==
    /\ BuildIdle
    /\ \E c \in Candidates : repodata = {Entry("pkg", "1.0", c, 0, "linux")}
    /\ \E v \in NormVariants : crecipe = [render |-> "metas", metas |-> <<v>>]
    /\ skip_variant_keys = {}
    /\ keep_metas = FALSE
    /\ CheckLocals

SpecNorm == InitNorm /\ [][NextCheck]_vars

\* ------------------------------------------------------------- properties
\* what the properties speak of, stated without the operators of the model
Built == {build_log[i].target : i \in DOMAIN build_log}

TargetsOf(r) == Range(recipe_targets[r])

RecipesOf(n) == Range(name2recipes[n])

\* b is reached from a by one or more edges of E (at most k + 1 of them)
RECURSIVE PathWithin(_, _, _, _)
PathWithin(E, a, b, k) ==
    \/ <<a, b>> \in E
    \/ k > 0 /\ \E e \in E : e[1] = a /\ PathWithin(E, e[2], b, k - 1)

Path(E, a, b) == PathWithin(E, a, b, Cardinality(E))

Acyclic(E) == \A e \in E : ~Path(E, e[1], e[1])

Shard == subdag.nodes

ShardEdges == {e \in dag.edges : e[1] \in Shard /\ e[2] \in Shard}

\* C1: when a Target of recipe R is passed to build, every Target of every
\* recipe whose name is a dependency of R's name in the selected shard has been
\* passed to build earlier in the run (acyclic graphs are a special case)
C1_DependenciesFirst ==
    \A i \in DOMAIN build_log :
       \A e \in dag.edges :
          (e[2] = build_log[i].target[1][1] /\ e[1] \in Shard) =>
             \A r \in RecipesOf(e[1]) : \A d \in TargetsOf(r) :
                \E j \in 1..(i - 1) : build_log[j].target = d

C1_Witness ==
    /\ Acyclic(dag.edges)
    /\ \E i \in DOMAIN build_log :
          \E e \in dag.edges :
             /\ e[2] = build_log[i].target[1][1]
             /\ e[1] \in Shard
             /\ e[1] > e[2]
             /\ Cardinality(UNION {TargetsOf(r) : r \in RecipesOf(e[1])}) = 2

FailedTargets == {build_log[i].target : i \in {k \in DOMAIN build_log : ~build_log[k].success}}

\* C2 as stated: after a failed Target of recipe R, for every name D of the
\* shard that is a descendant of R's name in the dependency graph, no Target of
\* a recipe of D is built, the ledger entry of D holds R, and at the end of the
\* run every recipe of D is in the skipped list
C2_Original ==
    Acyclic(dag.edges) =>
       \A i \in DOMAIN build_log :
          ~build_log[i].success =>
             LET R == build_log[i].target[1]
             IN \A D \in Shard :
                   Path(dag.edges, R[1], D) =>
                      /\ \A r \in RecipesOf(D) : TargetsOf(r) \cap Built = {}
                      /\ D \in DOMAIN skip_dependent
                      /\ R \in Range(skip_dependent[D])
                      /\ pc = "done" => RecipesOf(D) \subseteq Range(skipped_recipes)

\* C2, amended: the same for every name D reached from R's name by dependency
\* edges between names of the shard
C2_SkipDescendants ==
    \A i \in DOMAIN build_log :
       ~build_log[i].success =>
          LET R == build_log[i].target[1]
          IN \A D \in Shard :
                Path(ShardEdges, R[1], D) =>
                   /\ \A r \in RecipesOf(D) : TargetsOf(r) \cap Built = {}
                   /\ D \in DOMAIN skip_dependent
                   /\ R \in Range(skip_dependent[D])
                   /\ pc = "done" => RecipesOf(D) \subseteq Range(skipped_recipes)

C2_Witness ==
    /\ pc = "done"
    /\ \E i \in DOMAIN build_log :
          /\ ~build_log[i].success
          /\ \E D \in Shard :
                /\ Path(ShardEdges, build_log[i].target[1][1], D)
                /\ <<build_log[i].target[1][1], D>> \notin dag.edges
                /\ RecipesOf(D) \subseteq Range(skipped_recipes)

\* the nodes of shard i (0-based) of the chunks computed by the run
ShardOf(i) == IF i < Len(chunks) THEN Range(chunks[i + 1]) ELSE {}

Sharded == pc \notin {"start", "ValueError"}

\* C3: the node sets of the shards 0..N-1 are pairwise disjoint, no node is
\* twice in one of them, and their union is the node set of the graph
C3_Partition ==
    Sharded =>
       /\ \A i, j \in 0..(subdags_n - 1) : i # j => ShardOf(i) \cap ShardOf(j) = {}
       /\ \A i \in DOMAIN chunks : \A n \in dag.nodes : Count(chunks[i], n) <= 1
       /\ UNION {ShardOf(i) : i \in 0..(subdags_n - 1)} = dag.nodes
       /\ pc = "loop" => Shard = ShardOf(subdag_i)

C3_Witness ==
    /\ pc = "loop"
    /\ ~testonly
    /\ subdags_n = 2
    /\ Cardinality(dag.nodes) = 4
    /\ Cardinality(dag.edges) = 2
    /\ Len(chunks) = 2
    /\ Len(chunks[1]) = 3

\* the attempt of the i-th Target of build_log ran to its end
Returned(i) == ~(pc = "CollaboratorError" /\ i = Len(build_log))

\* C4: purge is invoked once for each Target passed to build whose attempt
\* ended with a successful build, a failed build or an upload that reported
\* failure, and for no other Target
C4_PurgeOnce ==
    /\ \A i \in DOMAIN purge_log :
          /\ i \in DOMAIN build_log
          /\ purge_log[i] = build_log[i].target
    /\ \A i \in DOMAIN build_log :
          Returned(i) => Count(purge_log, build_log[i].target) = 1

C4_Witness ==
    /\ pc = "done"
    /\ \E i \in DOMAIN upload_log :
          /\ upload_log[i].outcome = "fail"
          /\ upload_log[i].fn = "anaconda_upload"
          /\ Count(purge_log, upload_log[i].target) = 1
    /\ \E t \in FailedTargets : Count(purge_log, t) = 1

\* C5: a recipe with a failed Target is never in the built set, and at the end
\* of the run a recipe of the shard all of whose Targets were passed to build
\* and none failed is in it
C5_BuiltSet ==
    /\ \A r \in Range(built_recipes) : TargetsOf(r) \cap FailedTargets = {}
    /\ pc = "done" =>
          \A r \in Range(recipes) :
             (/\ TargetsOf(r) # {}
              /\ TargetsOf(r) \subseteq Built
              /\ TargetsOf(r) \cap FailedTargets = {}) => r \in Range(built_recipes)

C5_Witness ==
    /\ pc = "done"
    /\ built_recipes # <<>>
    /\ \E r \in Range(recipes) :
          /\ r \notin Range(built_recipes)
          /\ \E t \in TargetsOf(r) : t \in Built \ FailedTargets
          /\ \E t \in TargetsOf(r) : t \in FailedTargets

UploadReportedFailure ==
    \E i \in DOMAIN upload_log :
       upload_log[i].fn = "anaconda_upload" /\ upload_log[i].outcome = "fail"

\* C6: the returned value is true iff the run recorded no failed build and no
\* failed upload; one failed upload makes it false, no failure makes it true
C6_ReturnValue ==
    pc = "done" =>
       /\ result \in {"True", "False"}
       /\ result = "True" <=> (failed = <<>> /\ failed_uploads = <<>>)
       /\ UploadReportedFailure => result = "False"
       /\ FailedTargets # {} => result = "False"
       /\ (FailedTargets = {} /\ ~UploadReportedFailure) => result = "True"

C6_Witness ==
    /\ pc = "done"
    /\ result = "False"
    /\ FailedTargets = {}
    /\ Len(failed_uploads) = 1
    /\ Len(build_log) = 3

NothingInvoked == build_log = <<>> /\ upload_log = <<>> /\ purge_log = <<>>

\* C7 as stated: for every input, the empty ones included, a shard index I >= N
\* ends the run in the configuration error, with nothing invoked before it
C7_Original ==
    (pc # "start" /\ subdag_i >= subdags_n) =>
       pc = "ValueError" /\ result = None /\ NothingInvoked

\* C7, amended: so it is when recipes were selected and the graph has a node;
\* with no recipe or no node the run returns success and does not look at I
C7_BadIndex ==
    (pc # "start" /\ subdag_i >= subdags_n) =>
       IF globbed # {} /\ dag.nodes # {}
       THEN pc = "ValueError" /\ result = None /\ NothingInvoked
       ELSE pc = "done" /\ result = "True" /\ NothingInvoked

C7_Witness ==
    /\ pc = "ValueError"
    /\ subdag_i >= subdags_n
    /\ Cardinality(dag.nodes) = 3

\* the units, as sets: the nodes in test-only mode, else the connected
\* components; their sorted member lists are disjoint, so the lexicographic
\* order of the lists is the order of their least members
UnitSets ==
    IF testonly THEN {{n} : n \in dag.nodes}
    ELSE {{m \in dag.nodes :
               m = n \/ Path(dag.edges \cup {<<e[2], e[1]>> : e \in dag.edges}, n, m)}
          : n \in dag.nodes}

Least(S) == CHOOSE x \in S : \A y \in S : x <= y

Position(u) == Cardinality({v \in UnitSets : Least(v) < Least(u)})

Expected(i) ==
    UNION {u \in UnitSets :
              IF subdags_n < Cardinality(UnitSets)
              THEN Position(u) % subdags_n = i
              ELSE Position(u) = i}

\* C8: shard I of N holds the members of the units at the sorted positions k
\* with k mod N = I when N is smaller than the number of units, else those of
\* unit I, and none when there is no unit I; a run on an empty shard returns
\* success and invokes nothing; N = 2 and the components {1}, {2, 3}, {4} give
\* the shards {1, 4} and {2, 3}
C8_RoundRobin ==
    (pc # "start" /\ dag.nodes # {} /\ subdag_i < subdags_n) =>
       /\ Shard = Expected(subdag_i)
       /\ \A i \in 0..(subdags_n - 1) : ShardOf(i) = Expected(i)
       /\ Expected(subdag_i) = {} =>
             pc = "done" /\ result = "True" /\ NothingInvoked
       /\ Expected(subdag_i) # {} => pc # "done" \/ build_log # <<>>
       /\ (/\ ~testonly
           /\ subdags_n = 2
           /\ dag.nodes = 1..4
           /\ dag.edges = {<<2, 3>>}) =>
             Shard = IF subdag_i = 0 THEN {1, 4} ELSE {2, 3}

C8_Witness ==
    /\ pc = "done"
    /\ ~testonly
    /\ subdags_n = 2
    /\ subdag_i = 0
    /\ dag.nodes = 1..4
    /\ dag.edges = {<<2, 3>>}
    /\ Shard = {1, 4}
    /\ Len(build_log) = 2

\* ------------------------------------------------------------- C9
\* the index has an entry with the name, version and build string of variant m
\* on one of the platforms P
ExactEntry(m, P) ==
    \E rec \in repodata :
       /\ rec.name = m.name
       /\ rec.version = m.version
       /\ rec.build = m.build_id
       /\ rec.platform \in P

\* m is marked skip or uses one of the keys check was told to skip
Skipped(m) == m.skip \/ m.used_vars \cap skip_variant_keys # {}

\* m is noarch: python and the index has its name, version and build number
\* on noarch
NoarchPythonBuilt(m) ==
    /\ m.noarch = "python"
    /\ \E rec \in repodata :
          /\ rec.name = m.name
          /\ rec.version = m.version
          /\ rec.build_number = m.build_number
          /\ rec.platform = "noarch"

\* C9 as stated: when check has returned for a recipe that rendered with valid
\* build strings, every variant whose name, version and build string are those
\* of an entry of the index contributed HAVE, and the result includes HAVE
C9_Original ==
    (cpc = "done" /\ Len(contrib) = Len(metas)) =>
       \A i \in DOMAIN metas :
          ExactEntry(metas[i], Platforms) =>
             contrib[i] = "HAVE" /\ "HAVE" \in cresult

\* C9: a classified variant whose name, version and build string are those of
\* an entry of the index on linux or noarch contributes SKIP when it is skipped,
\* else HAVE_NOARCH_PYTHON when it is noarch: python and its build number is on
\* noarch, else HAVE; it never contributes BUMP or BUMPED, and the state that
\* check returns includes its flag
C9_ExactMatch ==
    \A i \in DOMAIN contrib :
       ExactEntry(metas[i], {"linux", "noarch"}) =>
          /\ contrib[i] = IF Skipped(metas[i]) THEN "SKIP"
                          ELSE IF NoarchPythonBuilt(metas[i])
                               THEN "HAVE_NOARCH_PYTHON"
                               ELSE "HAVE"
          /\ contrib[i] \notin {"BUMP", "BUMPED"}
          /\ cpc = "done" => contrib[i] \in cresult

\* check returned HAVE for a variant that the index has under another build
\* number only
C9_Witness ==
    /\ cpc = "done"
    /\ "HAVE" \in cresult
    /\ \E i \in DOMAIN contrib :
          /\ contrib[i] = "HAVE"
          /\ ExactEntry(metas[i], {"linux", "noarch"})
          /\ \A rec \in repodata : rec.build_number # metas[i].build_number

\* ------------------------------------------------------------- C10
\* t is one recognized tag, of the i-th group
RecognizedTag(t, i) ==
    alternative_len(legacy_build_string_prefixes[i], t) = Len(t)

\* C10 as stated: when the entry of the index is a recognized tag, "_" and the
\* variant's build string, the variant is found in the index (HAVE) exactly
\* when the tag's dependency is not among its build and host requirements
C10_Original ==
    Len(contrib) = 1 =>
       \A rec \in repodata, t \in LegacyTags :
          \A i \in DOMAIN legacy_build_string_prefixes :
             (RecognizedTag(t, i) /\ rec.build = t \o <<"_">> \o metas[1].build_id) =>
                (contrib[1] = "HAVE"
                 <=> legacy_build_string_prefixes[i].group
                        \notin Range(build_deps(metas[1])))

\* ------------------------------------------------------------- C11
\* the build string of m is empty or has a character outside [A-Za-z0-9_.]
BadBuildString(m) ==
    \/ m.build_id = <<>>
    \/ \E k \in DOMAIN m.build_id :
          m.build_id[k] \notin allowed_build_string_characters

\* rendering raises, returns None, or returns a variant with a bad build string
FailShortCircuit ==
    \/ crecipe.render # "metas"
    \/ \E i \in DOMAIN crecipe.metas : BadBuildString(crecipe.metas[i])

\* C11: when rendering raises, returns None or yields a variant whose build
\* string is empty or has a character outside [A-Za-z0-9_.], check never enters
\* the loop over the variants, classifies none of them and returns exactly
\* {FAIL}; a state that check returns with FAIL in it has no other flag
C11_FailOnly ==
    /\ FailShortCircuit =>
          /\ cpc \in {"render", "done"}
          /\ contrib = <<>>
          /\ flags = {}
          /\ cpc = "done" => cresult = {"FAIL"}
    /\ (cpc = "done" /\ state_failed(cresult)) => cresult = {"FAIL"}

\* check returned {FAIL} for a recipe whose first variant is in the index and
\* whose second variant has a character that is not allowed
C11_Witness ==
    /\ cpc = "done"
    /\ cresult = {"FAIL"}
    /\ Len(metas) = 2
    /\ ~BadBuildString(metas[1])
    /\ ExactEntry(metas[1], {"linux", "noarch"})
    /\ metas[2].build_id # <<>>
    /\ BadBuildString(metas[2])
    /\ contrib = <<>>

\* ------------------------------------------------------------- C12
\* every build of m's name and version on one of the platforms P has a build
\* number below m's
AllSmaller(m, P) ==
    \A rec \in repodata :
       (rec.name = m.name /\ rec.version = m.version /\ rec.platform \in P)
          => rec.build_number < m.build_number

\* the first of SKIP, HAVE_NOARCH_PYTHON, HAVE, BUMPED, BUMP that applies to m
\* when BUMPED looks at the builds on the platforms P
FirstMatch(m, P) ==
    IF Skipped(m) THEN "SKIP"
    ELSE IF NoarchPythonBuilt(m) THEN "HAVE_NOARCH_PYTHON"
    ELSE IF have_variant(m) THEN "HAVE"
    ELSE IF AllSmaller(m, P) THEN "BUMPED"
    ELSE "BUMP"

\* check returned the union of the first matches of its variants
UnionOfFirstMatches(P) ==
    (cpc = "done" /\ ~FailShortCircuit) =>
       /\ Len(contrib) = Len(metas)
       /\ \A i \in DOMAIN metas : contrib[i] = FirstMatch(metas[i], P)
       /\ cresult = Range(contrib)
       /\ needs_bump(cresult) <=> \E i \in DOMAIN contrib : contrib[i] = "BUMP"

C13_Original ==
    (pc # "start" /\ ~Acyclic(dag.edges) /\ subdag_i < subdags_n) =>
       pc = "NetworkXUnfeasible" /\ build_log = <<>>

\* ------------------------------------------------------------- C14
\* C14 as stated: every Target that was passed to build has been purged, also
\* when one of its uploads raised
C14_Original ==
    /\ Len(purge_log) = Len(build_log)
    /\ \A i \in DOMAIN build_log : purge_log[i] = build_log[i].target

\* ------------------------------------------------------------- C15
\* C15 as stated: a Target whose artifact upload or test image upload reported
\* failure is in the list of failed uploads, and the run then returns false
C15_Original ==
    \A i \in DOMAIN upload_log :
       upload_log[i].outcome = "fail" =>
          /\ upload_log[i].target \in Range(failed_uploads)
          /\ pc = "done" => result = "False"

\* ------------------------------------------------------------- C16
\* the recipes that own a Target whose build failed
FailedRecipes == {t[1] : t \in FailedTargets}

\* the Targets whose artifact upload or test image upload reported failure
FailedUploadTargets ==
    {upload_log[i].target : i \in {k \in DOMAIN upload_log : upload_log[k].outcome = "fail"}}

\* every Target of recipe r was passed to build and built
AllBuilt(r) ==
    \A t \in TargetsOf(r) :
       \E i \in DOMAIN build_log : build_log[i].target = t /\ build_log[i].success

\* C16: a failed upload adds no (recipe, Target) failure and nothing to the skip
\* ledger: the failures are those of the failed builds and every blocking recipe
\* of the ledger owns one; at the end of the run a recipe with a failed upload
\* all of whose builds succeeded is in the built set, and every Target of every
\* recipe of a descendant of its name in the shard has been passed to build,
\* unless a recipe with a failed build blocks that descendant
C16_UploadFailureNoSkip ==
    /\ Range(failed) = {<<t[1], t>> : t \in FailedTargets}
    /\ \A n \in DOMAIN skip_dependent :
          Range(skip_dependent[n]) \subseteq FailedRecipes
    /\ pc = "done" =>
          \A t \in FailedUploadTargets :
             /\ AllBuilt(t[1]) => t[1] \in Range(built_recipes)
             /\ \A D \in Shard :
                   Path(ShardEdges, t[1][1], D) =>
                      \/ \A r \in RecipesOf(D) : TargetsOf(r) \subseteq Built
                      \/ /\ D \in DOMAIN skip_dependent
                         /\ skip_dependent[D] # <<>>
                         /\ Range(skip_dependent[D]) \subseteq FailedRecipes

\* the run ended with no failed build, an upload of a Target of a recipe failed,
\* the recipe is in the built set and a descendant of its name was built
C16_Witness ==
    /\ pc = "done"
    /\ failed = <<>>
    /\ skip_dependent = <<>>
    /\ \E t \in FailedUploadTargets :
          /\ t \in Range(failed_uploads)
          /\ t[1] \in Range(built_recipes)
          /\ \E D \in Shard :
                /\ Path(ShardEdges, t[1][1], D)
                /\ \A r \in RecipesOf(D) : TargetsOf(r) \subseteq Built

\* ------------------------------------------------------------- C17
\* the number of times Target t was passed to build
Builds(t) == Cardinality({i \in DOMAIN build_log : build_log[i].target = t})

\* C17: a failed build leaves the run in its loop, and when the run ends every
\* recipe of the shard is either in the skipped list, with its name in the skip
\* ledger and none of its Targets built, or has had each of its Targets passed
\* to build exactly once, whether or not an earlier Target of it or a recipe of
\* the same name failed
C17_FailureNeverAborts ==
    /\ (FailedTargets # {} /\ pc # "CollaboratorError") => pc \in {"loop", "done"}
    /\ pc = "done" =>
          \A n \in Shard : \A r \in RecipesOf(n) :
             IF n \in DOMAIN skip_dependent
             THEN /\ r \in Range(skipped_recipes)
                  /\ \A t \in TargetsOf(r) : Builds(t) = 0
             ELSE /\ r \notin Range(skipped_recipes)
                  /\ \A t \in TargetsOf(r) : Builds(t) = 1

\* the run ended; the first Target of a recipe failed, its second Target was
\* built after it, and so was another recipe of the same name
C17_Witness ==
    /\ pc = "done"
    /\ \E n \in Shard : \E r, q \in RecipesOf(n) :
          /\ r # q
          /\ Len(recipe_targets[r]) = 2
          /\ recipe_targets[r][1] \in FailedTargets
          /\ Builds(recipe_targets[r][2]) = 1
          /\ \A t \in TargetsOf(q) : Builds(t) = 1

\* ------------------------------------------------------------- C18
\* s is a prefix of t
IsPrefix(s, t) == Len(s) <= Len(t) /\ SubSeq(t, 1, Len(s)) = s

\* the names of the Targets that one step adds to a log of Targets
NewNames(old, new) == {new[i][1][1] : i \in DOMAIN new \ DOMAIN old}

\* one step of the run keeps every name and every blocking recipe of the skip
\* ledger, builds, uploads and purges no Target of a name that is in the ledger,
\* and when it passes a recipe of such a name it records the recipe as skipped
LedgerStep ==
    /\ \A n \in DOMAIN skip_dependent :
          /\ n \in DOMAIN skip_dependent'
          /\ IsPrefix(skip_dependent[n], skip_dependent'[n])
    /\ NewNames([i \in DOMAIN build_log |-> build_log[i].target],
                [i \in DOMAIN build_log' |-> build_log'[i].target])
          \cap DOMAIN skip_dependent = {}
    /\ NewNames([i \in DOMAIN upload_log |-> upload_log[i].target],
                [i \in DOMAIN upload_log' |-> upload_log'[i].target])
          \cap DOMAIN skip_dependent = {}
    /\ NewNames(purge_log, purge_log') \cap DOMAIN skip_dependent = {}
    /\ (pc = "loop" /\ idx' # idx /\ recipes[idx][1] \in DOMAIN skip_dependent)
          => skipped_recipes' = Append(skipped_recipes, recipes[idx])

\* C18: the skip ledger only grows, and from the moment a name is in the ledger
\* no Target of a recipe of that name is built, uploaded or purged; each such
\* recipe is recorded as skipped when it is reached
C18_LedgerOnlyGrows == [][LedgerStep]_vars

\* a name has two blocking recipes in the ledger and its recipe was skipped
\* with none of its Targets built
C18_Witness ==
    /\ pc = "done"
    /\ \E n \in DOMAIN skip_dependent :
          /\ Len(skip_dependent[n]) >= 2
          /\ skip_dependent[n][1] # skip_dependent[n][2]
          /\ \A r \in RecipesOf(n) :
                /\ r \in Range(skipped_recipes)
                /\ TargetsOf(r) \cap Built = {}

\* ------------------------------------------------------------- C19
\* the dependency edges in both directions
BothWays == dag.edges \cup {<<e[2], e[1]>> : e \in dag.edges}

\* C19: outside test-only mode no dependency edge has its ends in two shards,
\* whatever the shard count, and every name that a chain of dependency edges,
\* in either direction, connects to a name of the selected shard is in the
\* selected shard
C19_NoEdgeCrossesShards ==
    (Sharded /\ ~testonly) =>
       /\ \A i \in 0..(subdags_n - 1) : \A e \in dag.edges :
             e[1] \in ShardOf(i) <=> e[2] \in ShardOf(i)
       /\ \A n \in ShardOf(subdag_i) : \A m \in dag.nodes :
             Path(BothWays, n, m) => m \in ShardOf(subdag_i)
       /\ pc \in {"loop", "done"} => Shard = ShardOf(subdag_i)

\* a run outside test-only mode over two shards that are not empty, where the
\* selected shard holds a chain of two dependency edges and was built
C19_Witness ==
    /\ ~testonly
    /\ pc = "done"
    /\ build_log # <<>>
    /\ \E i \in 0..(subdags_n - 1) : i # subdag_i /\ ShardOf(i) # {}
    /\ \E a, b, c2 \in Shard :
          /\ a # c2
          /\ <<a, b>> \in dag.edges
          /\ <<b, c2>> \in BothWays

\* ------------------------------------------------------------- C20
\* s without those tags of its leading run of recognized tags whose dependency
\* is not in deps; the rest of s is kept as it is
RECURSIVE StripRun(_, _)
StripRun(s, deps) ==
    LET i == alternative(s)
    IN IF i = 0 THEN s
       ELSE LET a == legacy_build_string_prefixes[i]
                n == alternative_len(a, s)
            IN (IF a.group \in Range(deps) THEN SubSeq(s, 1, n) ELSE <<>>)
               \o StripRun(drop(s, n), deps)

\* the normalized form: the run stripped, then one leading "_" dropped
Normalized(s, deps) ==
    LET t == StripRun(s, deps)
    IN IF t # <<>> /\ Head(t) = "_" THEN Tail(t) ELSE t

\* C20 as stated: on the fallback path the form that have_variant compares with
\* the variant's build string is the candidate without the tags of its leading
\* run whose dependency the variant does not require, less one leading "_", and
\* the variant is found (HAVE) exactly when that form is its build string
C20_Original ==
    Len(contrib) = 1 =>
       \A rec \in repodata :
          rec.build # metas[1].build_id =>
             /\ trim(rec.build, build_deps(metas[1]))
                   = Normalized(rec.build, build_deps(metas[1]))
             /\ contrib[1] = "HAVE"
                   <=> Normalized(rec.build, build_deps(metas[1])) = metas[1].build_id


\* ---------------------------------------------------------------------------
\* C21
\* ---------------------------------------------------------------------------

\* the calls of upload.mulled_upload made so far
MulledUploads == {i \in DOMAIN upload_log : upload_log[i].fn = "mulled_upload"}

\* C21 as stated: the test-image upload is invoked for a Target only when that
\* Target's build succeeded, the run is not test-only, a distribution target is
\* configured and the build outcome carries a test image; it is never invoked
\* with an absent image
C21_Original ==
    \A i \in MulledUploads :
       /\ upload_log[i].target \in Built \ FailedTargets
       /\ ~testonly
       /\ mulled_upload_target
       /\ upload_log[i].image # NoImage


\* ---------------------------------------------------------------------------
\* C22
\* ---------------------------------------------------------------------------

\* the recipes that own an entry of failed
FailureOwners == {f[1] : f \in Range(failed)}

\* the number of the three classes (built, skipped, owner of a failure) that
\* hold the recipe r
ClassCount(r) ==
    (IF r \in Range(built_recipes) THEN 1 ELSE 0)
    + (IF r \in Range(skipped_recipes) THEN 1 ELSE 0)
    + (IF r \in FailureOwners THEN 1 ELSE 0)

\* a run over a non-empty shard has returned
EndedOverShard == pc = "done" /\ recipes # <<>>

\* C22: when a run of build_recipes over a non-empty shard ends, every recipe
\* of the shard is in exactly one of the classes built, skipped and owner of a
\* recorded (recipe, Target) failure; and when a recipe was skipped, the list
\* of failures is not empty, every blocking recipe of the skip ledger owns a
\* recorded failure and the result is False
C22_ThreeClasses ==
    EndedOverShard =>
       /\ \A r \in Range(recipes) : ClassCount(r) = 1
       /\ skipped_recipes # <<>> =>
             /\ failed # <<>>
             /\ \A n \in DOMAIN skip_dependent :
                   Range(skip_dependent[n]) \subseteq FailureOwners
             /\ result = "False"

\* a run has ended with a built recipe, a skipped recipe and the failed recipe
\* that blocks it
C22_Witness ==
    /\ EndedOverShard
    /\ built_recipes # <<>>
    /\ skipped_recipes # <<>>
    /\ \E n \in DOMAIN skip_dependent :
          Range(skip_dependent[n]) \cap FailureOwners # {}

====
